---- MODULE Spec2Model ----
(***************************************************************************)
(* Model of extract_text_from_protobuf (apple_notes_reader.py, lines       *)
(* 38-106): gzip unwrap with raw fallback, the heuristic scan for          *)
(* length-delimited fields, the text filter and the line de-duplication.   *)
(*                                                                         *)
(* Bytes are integers 0..255, strings are sequences of code points.        *)
(* Offsets (i, tag_offset, span starts) are Python's 0-based offsets; the  *)
(* byte at offset k of a buffer b is b[k + 1].                             *)
(***************************************************************************)
EXTENDS Integers, Sequences, FiniteSets, TLC

VARIABLES data, decompressed, i, length, shift, text_parts, result, pc,
          tag_offset, spans, reads, iters

vars == <<data, decompressed, i, length, shift, text_parts, result, pc,
          tag_offset, spans, reads, iters>>

(***************************************************************************)
(* Bounds of the model.                                                    *)
(***************************************************************************)
\* longest buffer enumerated byte by byte over ShortBytes
MaxLen == 5
\* most fields in a buffer built from the texts of Texts
MaxFields == 2

(***************************************************************************)
(* Program constants.                                                      *)
(***************************************************************************)
\* upper limit (exclusive) of an accepted field length
MaxFieldLen == 10000
\* number of characters the identifier pattern asks for
UuidLen == 36

NL == 10
NUL == 0
DASH == 45

Min(a, b) == IF a < b THEN a ELSE b

(***************************************************************************)
(* Byte arithmetic of the scanner.                                         *)
(***************************************************************************)
\* byte & 0x07
WireType(byte) == byte % 8

\* b & 0x7F
Payload(b) == b % 128

\* b & 0x80
HasContinuation(b) == b >= 128

\* length |= (b & 0x7F) << shift.  The shifted groups never overlap, so the
\* bitwise or is a sum.  Python integers are unbounded; a value of 2^28 or
\* more is kept as 2^28, which compares with MaxFieldLen and with every
\* buffer length of the model as the exact value does.
OrShifted(len, b, sh) ==
    IF sh <= 21 THEN len + Payload(b) * (2 ^ sh)
    ELSE IF Payload(b) = 0 THEN len
    ELSE 2 ^ 28

\* the guard of line 59
TagGuardMut(off, n) == off + 3 < n
TagGuard(off, n) == off + 2 < n

\* the validation of line 77
ValidLengthMutZero(len, off, n) == 0 <= len /\ len < MaxFieldLen /\ off + len <= n
ValidLengthMutNoEnd(len, off, n) == 0 < len
ValidLength(len, off, n) == 0 < len /\ len < MaxFieldLen /\ off + len <= n

\* decompressed[off : off + len], with Python's clamping of slice ends
Slice(b, off, len) == SubSeq(b, off + 1, Min(off + len, Len(b)))

(***************************************************************************)
(* candidate.decode('utf-8'): one-byte and two-byte sequences.  The bytes  *)
(* of the model are all below 0xE0, so longer sequences never start.       *)
(***************************************************************************)
RECURSIVE Utf8Decode(_)
Utf8Decode(bs) ==
    IF bs = <<>> THEN [ok |-> TRUE, text |-> <<>>]
    ELSE LET b == Head(bs) IN
         IF b < 128
         THEN LET r == Utf8Decode(Tail(bs))
              IN  [ok |-> r.ok, text |-> <<b>> \o r.text]
         ELSE IF b >= 194 /\ b <= 223 /\ Len(bs) >= 2
                 /\ bs[2] >= 128 /\ bs[2] <= 191
         THEN LET r == Utf8Decode(SubSeq(bs, 3, Len(bs)))
              IN  [ok |-> r.ok,
                   text |-> <<(b - 192) * 64 + (bs[2] - 128)>> \o r.text]
         ELSE [ok |-> FALSE, text |-> <<>>]

\* the exception a failed attempt raises, "" when it raises none
DecodeError(bs) == IF Utf8Decode(bs).ok THEN "" ELSE "UnicodeDecodeError"

\* except (UnicodeDecodeError, Exception): pass
CaughtMut(exc) == exc \in {"KeyError"}
Caught(exc) == exc \in {"UnicodeDecodeError", "Exception"}

(***************************************************************************)
(* Character classes (code points below 0x100).                            *)
(***************************************************************************)
\* str.isalpha of one character
IsAlpha(c) ==
    \/ c \in 65..90
    \/ c \in 97..122
    \/ c \in {170, 181, 186}
    \/ c \in 192..214
    \/ c \in 216..246
    \/ c \in 248..255

\* the characters str.strip() removes
IsSpace(c) == c \in {9, 10, 11, 12, 13, 28, 29, 30, 31, 32, 133, 160}

\* [0-9a-f-] under re.I
HexOrDash(c) == c \in 48..57 \/ c \in 97..102 \/ c \in 65..70 \/ c = DASH

\* re.match(r'^[0-9a-f-]{36}$', text, re.I): 36 characters of the class
\* from the start, then $, which matches at the end of the string and also
\* just before a newline that ends the string
UuidMatchMut(text) == FALSE
UuidMatch(text) ==
    /\ Len(text) >= UuidLen
    /\ \A k \in 1..UuidLen : HexOrDash(text[k])
    /\ \/ Len(text) = UuidLen
       \/ Len(text) = UuidLen + 1 /\ text[UuidLen + 1] = NL

\* the filter of lines 83-87
ReadableMutNoAlpha(text) ==
    /\ Len(text) > 1
    /\ ~(text[1] = NUL)
    /\ ~UuidMatch(text)
Readable(text) ==
    /\ Len(text) > 1
    /\ \E k \in 1..Len(text) : IsAlpha(text[k])
    /\ ~(text[1] = NUL)
    /\ ~UuidMatch(text)

(***************************************************************************)
(* Joining, splitting, trimming and de-duplicating lines.                  *)
(***************************************************************************)
\* '\n'.join(parts)
RECURSIVE Join(_)
Join(parts) ==
    IF parts = <<>> THEN <<>>
    ELSE IF Len(parts) = 1 THEN parts[1]
    ELSE parts[1] \o <<NL>> \o Join(Tail(parts))

\* s.split('\n'): never empty, "" gives [""]
RECURSIVE Split(_)
Split(s) ==
    IF \A k \in 1..Len(s) : s[k] # NL THEN <<s>>
    ELSE LET k == CHOOSE j \in 1..Len(s) :
                     s[j] = NL /\ \A m \in 1..(j - 1) : s[m] # NL
         IN  <<SubSeq(s, 1, k - 1)>> \o Split(SubSeq(s, k + 1, Len(s)))

RECURSIVE LStrip(_)
LStrip(s) == IF s # <<>> /\ IsSpace(Head(s)) THEN LStrip(Tail(s)) ELSE s

RECURSIVE RStrip(_)
RStrip(s) ==
    IF s # <<>> /\ IsSpace(s[Len(s)]) THEN RStrip(SubSeq(s, 1, Len(s) - 1))
    ELSE s

\* line.strip()
Strip(s) == RStrip(LStrip(s))

\* the loop of lines 100-104 over the split lines ls
RECURSIVE DedupLoop(_, _, _)
DedupLoop(ls, seen, lines) ==
    IF ls = <<>> THEN lines
    ELSE LET line == Strip(Head(ls)) IN
         IF line # <<>> /\ line \notin seen
         THEN DedupLoop(Tail(ls), seen \cup {line}, Append(lines, line))
         ELSE DedupLoop(Tail(ls), seen, lines)

\* the loop without its test of seen
RECURSIVE DedupLoopNoSeen(_, _)
DedupLoopNoSeen(ls, lines) ==
    IF ls = <<>> THEN lines
    ELSE LET line == Strip(Head(ls)) IN
         IF line # <<>>
         THEN DedupLoopNoSeen(Tail(ls), Append(lines, line))
         ELSE DedupLoopNoSeen(Tail(ls), lines)

\* the loop putting each new line in front
RECURSIVE DedupLoopFront(_, _, _)
DedupLoopFront(ls, seen, lines) ==
    IF ls = <<>> THEN lines
    ELSE LET line == Strip(Head(ls)) IN
         IF line # <<>> /\ line \notin seen
         THEN DedupLoopFront(Tail(ls), seen \cup {line}, <<line>> \o lines)
         ELSE DedupLoopFront(Tail(ls), seen, lines)

\* lines 96-106
CleanUpMutNoSeen(parts) == Join(DedupLoopNoSeen(Split(Join(parts)), <<>>))
CleanUpMutFront(parts) == Join(DedupLoopFront(Split(Join(parts)), {}, <<>>))
CleanUp(parts) == Join(DedupLoop(Split(Join(parts)), {}, <<>>))

(***************************************************************************)
(* Inputs.                                                                 *)
(***************************************************************************)
\* NUL, the length 1, two tags (lengths 2 and 10, the second the newline),
\* space, 'a', 0xAA (a tag and a varint continuation byte) and the lead
\* byte 0xC2 (a tag as well): 0xC2 0xAA is the letter U+00AA
ShortBytes == {0, 1, 2, 10, 32, 97, 170, 194}

RECURSIVE SeqsUpTo(_, _)
SeqsUpTo(S, n) ==
    IF n = 0 THEN {<<>>}
    ELSE LET shorter == SeqsUpTo(S, n - 1)
         IN  shorter \cup {Append(s, x) : s \in {t \in shorter : Len(t) = n - 1}, x \in S}

ShortBufs == SeqsUpTo(ShortBytes, MaxLen)

Rep(c, n) == [k \in 1..n |-> c]

Hello == <<104, 101, 108, 108, 111>>
Ab == <<97, 98>>
UpperAb == <<65, 98>>
Uuid == Rep(97, 8) \o <<DASH>> \o Rep(49, 4) \o <<DASH>> \o Rep(102, 4)
        \o <<DASH>> \o Rep(48, 4) \o <<DASH>> \o Rep(97, 12)
UuidUpper == Rep(65, 8) \o <<DASH>> \o Rep(49, 4) \o <<DASH>> \o Rep(70, 4)
             \o <<DASH>> \o Rep(48, 4) \o <<DASH>> \o Rep(65, 12)

Texts == { Hello, Ab, UpperAb, <<32>> \o Ab \o <<32>>,
           Uuid, UuidUpper,
           Rep(97, UuidLen), Rep(97, UuidLen - 1), Rep(97, UuidLen + 1),
           Uuid \o <<NL>>,
           <<32>> \o Uuid \o <<32>>,
           Ab \o <<NL>> \o Uuid }

\* a length-delimited field: tag 0x0A, one-byte length, the text
EncodeField(text) == <<10, Len(text)>> \o text

RECURSIVE FieldBufs(_)
FieldBufs(n) ==
    IF n = 0 THEN {<<>>}
    ELSE LET shorter == FieldBufs(n - 1)
         IN  shorter \cup {b \o EncodeField(t) : b \in shorter, t \in Texts}

\* the end of a buffer: nothing, or a tag whose length is cut off
Tails == {<<>>, <<10, 170, 170>>}

Scenarios ==
    {b \o t : b \in FieldBufs(MaxFields), t \in Tails}
    \cup {EncodeField(Hello) \o EncodeField(Hello) \o EncodeField(Ab),
          <<2, 10, 2, 97, 98>>,
          <<10, 130, 0, 97, 98>>}

\* an absent blob, raw bytes that are no gzip stream, or the gzip stream
\* of a payload
Inputs ==
    {[kind |-> "none", bytes |-> <<>>]}
    \cup {[kind |-> "raw", bytes |-> b] : b \in ShortBufs \cup Scenarios}
    \cup {[kind |-> "gzip", bytes |-> b] : b \in {<<>>} \cup FieldBufs(1)}

\* not data
Falsy(d) == d.kind = "none" \/ (d.kind = "raw" /\ d.bytes = <<>>)

\* gzip.decompress(data): the payload of a gzip stream, BadGzipFile for
\* bytes that do not start with the gzip magic
GzipDecompress(d) ==
    IF d.kind = "gzip" THEN [exc |-> "", out |-> d.bytes]
    ELSE [exc |-> "BadGzipFile", out |-> <<>>]

(***************************************************************************)
(* The program.                                                            *)
(***************************************************************************)
Init ==
    /\ data \in Inputs
    /\ decompressed = <<>>
    /\ i = 0
    /\ length = 0
    /\ shift = 0
    /\ text_parts = <<>>
    /\ result = <<>>
    /\ pc = "start"
    /\ tag_offset = 0
    /\ spans = <<>>
    /\ reads = {}
    /\ iters = 0

\* lines 43-44
ReturnEmpty ==
    /\ pc = "start"
    /\ Falsy(data)
    /\ result' = <<>>
    /\ pc' = "done"
    /\ reads' = {}
    /\ UNCHANGED <<data, decompressed, i, length, shift, text_parts,
                   tag_offset, spans, iters>>

\* lines 46-55
Decompress ==
    /\ pc = "start"
    /\ ~Falsy(data)
    /\ LET r == GzipDecompress(data)
       IN  decompressed' = IF r.exc = "" THEN r.out ELSE data.bytes
    /\ text_parts' = <<>>
    /\ i' = 0
    /\ pc' = "scan"
    /\ reads' = {}
    /\ UNCHANGED <<data, length, shift, result, tag_offset, spans, iters>>

\* one iteration of the outer loop that finds no tag: lines 57-63 and 93
ScanSkip ==
    /\ pc = "scan"
    /\ i < Len(decompressed)
    /\ ~(TagGuard(i, Len(decompressed)) /\ WireType(decompressed[i + 1]) = 2)
    /\ reads' = IF TagGuard(i, Len(decompressed)) THEN {i} ELSE {}
    /\ i' = i + 1
    /\ iters' = iters + 1
    /\ UNCHANGED <<data, decompressed, length, shift, text_parts, result, pc,
                   tag_offset, spans>>

\* the start of an iteration that finds a tag: lines 57-67
ScanTag ==
    /\ pc = "scan"
    /\ i < Len(decompressed)
    /\ TagGuard(i, Len(decompressed))
    /\ WireType(decompressed[i + 1]) = 2
    /\ reads' = {i}
    /\ tag_offset' = i
    /\ i' = i + 1
    /\ length' = 0
    /\ shift' = 0
    /\ iters' = iters + 1
    /\ pc' = IF i + 1 < Len(decompressed) THEN "varint" ELSE "validate"
    /\ UNCHANGED <<data, decompressed, text_parts, result, spans>>

\* one iteration of the varint loop: lines 68-74
ReadVarint ==
    /\ pc = "varint"
    /\ i < Len(decompressed)
    /\ LET b == decompressed[i + 1] IN
         /\ reads' = {i}
         /\ length' = OrShifted(length, b, shift)
         /\ i' = i + 1
         /\ IF ~HasContinuation(b)
            THEN /\ shift' = shift
                 /\ pc' = "validate"
            ELSE /\ shift' = shift + 7
                 /\ pc' = IF i + 1 < Len(decompressed) THEN "varint"
                          ELSE "validate"
    /\ UNCHANGED <<data, decompressed, text_parts, result, tag_offset, spans,
                   iters>>

\* a valid length: lines 77-92
EmitField ==
    /\ pc = "validate"
    /\ ValidLength(length, i, Len(decompressed))
    /\ LET candidate == Slice(decompressed, i, length)
           exc == DecodeError(candidate)
           text == Utf8Decode(candidate).text
       IN  /\ reads' = i..(Min(i + length, Len(decompressed)) - 1)
           /\ spans' = Append(spans, [tag |-> tag_offset, start |-> i,
                                      len |-> length])
           /\ IF exc = ""
              THEN /\ text_parts' = IF Readable(text)
                                    THEN Append(text_parts, text)
                                    ELSE text_parts
                   /\ i' = i + length
                   /\ pc' = "scan"
              ELSE IF Caught(exc)
              THEN /\ text_parts' = text_parts
                   /\ i' = i + length
                   /\ pc' = "scan"
              ELSE /\ text_parts' = text_parts
                   /\ i' = i
                   /\ pc' = "error"
    /\ UNCHANGED <<data, decompressed, length, shift, result, tag_offset,
                   iters>>

\* a length that fails the validation: lines 77 and 93
Backtrack ==
    /\ pc = "validate"
    /\ ~ValidLength(length, i, Len(decompressed))
    /\ i' = i + 1
    /\ pc' = "scan"
    /\ reads' = {}
    /\ UNCHANGED <<data, decompressed, length, shift, text_parts, result,
                   tag_offset, spans, iters>>

\* the end of the scan: lines 57 and 95-106
Finish ==
    /\ pc = "scan"
    /\ ~(i < Len(decompressed))
    /\ result' = CleanUp(text_parts)
    /\ pc' = "done"
    /\ reads' = {}
    /\ UNCHANGED <<data, decompressed, i, length, shift, text_parts,
                   tag_offset, spans, iters>>

Next ==
    \/ ReturnEmpty
    \/ Decompress
    \/ ScanSkip
    \/ ScanTag
    \/ ReadVarint
    \/ EmitField
    \/ Backtrack
    \/ Finish

Spec == Init /\ [][Next]_vars

(***************************************************************************)
(* Vocabulary of the properties.                                           *)
(***************************************************************************)
BufLen == Len(decompressed)

ScanStates == {"scan", "varint", "validate"}

\* an upper limit of the steps the call has still to take
StepsLeft ==
    CASE pc = "start" -> Len(data.bytes) + 3
      [] pc \in ScanStates -> BufLen + 2 - i
      [] OTHER -> 0

HelloHelloAb == EncodeField(Hello) \o EncodeField(Hello) \o EncodeField(Ab)

IsHexDigit(c) == c \in 48..57 \/ c \in 97..102 \/ c \in 65..70

\* 8-4-4-4-12 hexadecimal digits with dashes between the groups
IsUuidShape(s) ==
    /\ Len(s) = UuidLen
    /\ \A k \in 1..UuidLen :
          IF k \in {9, 14, 19, 24} THEN s[k] = DASH ELSE IsHexDigit(s[k])

\* 36 hexadecimal digits or dashes in any arrangement, alone or followed
\* by one newline
IsHexDashRun(s) ==
    /\ Len(s) \in {UuidLen, UuidLen + 1}
    /\ \A k \in 1..UuidLen : HexOrDash(s[k])
    /\ Len(s) = UuidLen + 1 => s[UuidLen + 1] = NL

HasAlpha(s) == \E k \in 1..Len(s) : IsAlpha(s[k])

\* the decoded content of an emitted span
SpanText(sp) == Utf8Decode(Slice(decompressed, sp.start, sp.len))

\* no two equal lines, no empty line, no line with whitespace at an end
CleanLines(ls) ==
    /\ \A j, k \in 1..Len(ls) : j # k => ls[j] # ls[k]
    /\ \A k \in 1..Len(ls) :
          /\ ls[k] # <<>>
          /\ ~IsSpace(ls[k][1])
          /\ ~IsSpace(ls[k][Len(ls[k])])

\* the trimmed, non-empty lines of the parts
PartLines(parts) ==
    UNION {{Strip(Split(parts[p])[k]) : k \in 1..Len(Split(parts[p]))} :
              p \in 1..Len(parts)} \ {<<>>}

ResultLines == {Split(result)[k] : k \in 1..Len(Split(result))}

\* the reference of the output: the lines of the parts in order, trimmed,
\* each kept where it occurs first
RECURSIVE FlatLines(_)
FlatLines(parts) ==
    IF parts = <<>> THEN <<>>
    ELSE Split(Head(parts)) \o FlatLines(Tail(parts))

RECURSIVE PickFrom(_, _, _)
PickFrom(s, keep, k) ==
    IF k > Len(s) THEN <<>>
    ELSE (IF k \in keep THEN <<s[k]>> ELSE <<>>) \o PickFrom(s, keep, k + 1)

RefLines(parts) ==
    LET all == FlatLines(parts)
        tr == [k \in 1..Len(all) |-> Strip(all[k])]
        keep == {k \in 1..Len(all) :
                    tr[k] # <<>> /\ \A j \in 1..(k - 1) : tr[j] # tr[k]}
    IN  PickFrom(tr, keep, 1)

\* the accepted texts of a sequence of spans, in the order of the spans
RECURSIVE AcceptedOf(_)
AcceptedOf(sps) ==
    IF sps = <<>> THEN <<>>
    ELSE LET d == SpanText(Head(sps))
         IN  (IF d.ok /\ Readable(d.text) THEN <<d.text>> ELSE <<>>)
             \o AcceptedOf(Tail(sps))

\* the scanner with the guard of line 59 removed
RECURSIVE ParseVarint(_, _, _, _)
ParseVarint(b, off, len, sh) ==
    IF ~(off < Len(b)) THEN [i |-> off, length |-> len]
    ELSE LET byte == b[off + 1]
             len2 == OrShifted(len, byte, sh)
         IN  IF ~HasContinuation(byte) THEN [i |-> off + 1, length |-> len2]
             ELSE ParseVarint(b, off + 1, len2, sh + 7)

RECURSIVE UnguardedScan(_, _)
UnguardedScan(b, off) ==
    IF ~(off < Len(b)) THEN <<>>
    ELSE IF WireType(b[off + 1]) # 2 THEN UnguardedScan(b, off + 1)
    ELSE LET v == ParseVarint(b, off + 1, 0, 0) IN
         IF ValidLength(v.length, v.i, Len(b))
         THEN <<[tag |-> off, start |-> v.i, len |-> v.length]>>
              \o UnguardedScan(b, v.i + v.length)
         ELSE UnguardedScan(b, v.i + 1)

\* the varint loop ran out of bytes: the last byte read asks for another
Truncated ==
    /\ pc = "validate"
    /\ i = BufLen
    /\ HasContinuation(decompressed[i])

(***************************************************************************)
(* C1.                                                                     *)
(***************************************************************************)
\* C1: whenever a byte at offset t is taken as a tag and the parsed length
\* fails the validation, the next offset examined as a tag is t + 1,
\* whatever the varint consumed; so 02 0A 02 61 62 decodes to "ab".
C1_ResumeAtTagPlusOne ==
    /\ [][(pc = "validate" /\ ~ValidLength(length, i, BufLen))
            => i' = tag_offset + 1]_vars
    /\ [](pc = "done" /\ decompressed = <<2, 10, 2, 97, 98>> => result = Ab)

(***************************************************************************)
(* C2.                                                                     *)
(***************************************************************************)
\* C2: the call terminates on every buffer: every step of the scan, and
\* so every iteration of the outer loop, moves the cursor forward by at
\* least 1; the outer loop runs at most len(buffer) iterations; the varint
\* loop reads the byte at the cursor and moves past it, so no byte twice;
\* every step of the call lowers a measure that is never negative, and
\* the varint loop is never left waiting for a byte, so the call ends and
\* ends at its return.
C2_Terminates ==
    /\ [][(pc \in ScanStates /\ pc' \in ScanStates) => i' > i]_vars
    /\ [](iters <= i /\ iters <= BufLen)
    /\ [][pc = "varint" => (reads' = {i} /\ i' = i + 1)]_vars
    /\ [][StepsLeft' < StepsLeft]_vars
    /\ [](StepsLeft >= 0)
    /\ [](pc \in {"start", "done"} \cup ScanStates)
    /\ [](pc = "varint" => i < BufLen)

\* a scan that emitted a field, then failed an attempt, and returned
C2_Witness ==
    /\ pc = "done"
    /\ spans # <<>>
    /\ i > BufLen
    /\ iters >= 2

(***************************************************************************)
(* C3.                                                                     *)
(***************************************************************************)
\* C3 as stated: the returned string, split on newline, contains no two
\* equal lines, no empty line and no line with leading or trailing
\* whitespace.
C3_SplitLinesClean == pc = "done" => CleanLines(Split(result))

\* C3 amended: the returned string is empty, or, split on newline, it
\* contains no two equal lines, no empty line and no line with leading or
\* trailing whitespace.
C3_EmptyOrCleanLines ==
    pc = "done" => (result = <<>> \/ CleanLines(Split(result)))

\* two equal accepted parts went through the clean-up, two lines came out
C3_Witness ==
    /\ pc = "done"
    /\ Len(Split(result)) >= 2
    /\ \E j, k \in 1..Len(text_parts) : j # k /\ text_parts[j] = text_parts[k]

(***************************************************************************)
(* C4.                                                                     *)
(***************************************************************************)
\* C4 as stated: a 36-character UUID-shaped string is never a line of the
\* output, whether it was a whole field or reached the line splitter inside
\* another accepted field.
C4_NoUuidLine == pc = "done" => \A line \in ResultLines : ~IsUuidShape(line)

\* C4 amended: a field whose whole decoded content is a 36-character
\* UUID-shaped string is never accepted, so a UUID-shaped line of the
\* output always comes from a longer accepted field that holds it as one of
\* its trimmed lines.
C4_WholeFieldUuidDropped ==
    /\ \A p \in 1..Len(text_parts) : ~IsUuidShape(text_parts[p])
    /\ pc = "done" =>
          \A line \in ResultLines :
              IsUuidShape(line) =>
                  \E p \in 1..Len(text_parts) :
                      /\ Len(text_parts[p]) > UuidLen
                      /\ line \in PartLines(<<text_parts[p]>>)

\* a whole-field UUID with a letter in it was scanned beside an accepted
\* field and is no line of the output
C4_Witness ==
    /\ pc = "done"
    /\ text_parts # <<>>
    /\ \E s \in 1..Len(spans) :
          /\ SpanText(spans[s]).ok
          /\ IsUuidShape(SpanText(spans[s]).text)
          /\ HasAlpha(SpanText(spans[s]).text)
          /\ SpanText(spans[s]).text \notin ResultLines

(***************************************************************************)
(* C5.                                                                     *)
(***************************************************************************)
\* C5: during a scan the cursor never decreases, never exceeds the buffer
\* length, and every offset read is below the buffer length.
C5_CursorWithinBuffer ==
    /\ [][i' >= i]_vars
    /\ [](i <= BufLen)
    /\ [](\A k \in reads : k < BufLen)

(***************************************************************************)
(* C6.                                                                     *)
(***************************************************************************)
\* C6: the call never ends in an error: no exception escapes, the varint
\* loop is entered only with a byte left to read (every other position has
\* a step for each outcome of its test), the value returned is a string,
\* and it is the empty string for an absent or empty blob and for a buffer
\* with no byte whose low 3 bits are 2.
C6_NeverFails ==
    /\ pc \in {"start", "scan", "varint", "validate", "done"}
    /\ pc = "varint" => i < BufLen
    /\ pc = "done" =>
          /\ result \in Seq(Nat)
          /\ (\/ Falsy(data)
              \/ \A k \in 1..BufLen : WireType(decompressed[k]) # 2)
                => result = <<>>

\* a span of invalid UTF-8 was scanned and the call still returned
C6_Witness ==
    /\ pc = "done"
    /\ \E s \in 1..Len(spans) : ~SpanText(spans[s]).ok

(***************************************************************************)
(* C7.                                                                     *)
(***************************************************************************)
\* C7: when the buffer ends inside a varint, the attempt emits no field and
\* accepts no text, the scan is over (the cursor is at or past the end),
\* and the return that follows holds every trimmed line of the parts
\* accepted so far.
C7_TruncatedVarint ==
    /\ [][Truncated => /\ spans' = spans
                       /\ text_parts' = text_parts
                       /\ pc' = "scan"
                       /\ ~(i' < BufLen)]_vars
    /\ [][(pc = "scan" /\ ~(i < BufLen))
            => /\ pc' = "done"
               /\ text_parts' = text_parts
               /\ \A line \in PartLines(text_parts) :
                     line \in {Split(result')[k] :
                                  k \in 1..Len(Split(result'))}]_vars

\* a field was accepted, the buffer then ended inside a varint, and the
\* text of the field was returned
C7_Witness ==
    /\ pc = "done"
    /\ i = BufLen + 1
    /\ HasContinuation(decompressed[BufLen])
    /\ text_parts # <<>>
    /\ result # <<>>

(***************************************************************************)
(* C8.                                                                     *)
(***************************************************************************)
\* C8: the output is the reference: the accepted texts of the spans in
\* ascending offset order, their lines trimmed, empty lines dropped, every
\* line kept where it first occurs, never reordered; "hello", "hello",
\* "ab" gives "hello\nab".
C8_FirstSeenOrder ==
    pc = "done" =>
        /\ \A j, k \in 1..Len(spans) :
              j < k => spans[j].start + spans[j].len <= spans[k].tag
        /\ text_parts = AcceptedOf(spans)
        /\ result = Join(RefLines(text_parts))
        /\ decompressed = HelloHelloAb => result = Hello \o <<NL>> \o Ab

\* the three fields of the scenario were decoded
C8_Witness ==
    /\ pc = "done"
    /\ decompressed = HelloHelloAb
    /\ result = Hello \o <<NL>> \o Ab

(***************************************************************************)
(* C9.                                                                     *)
(***************************************************************************)
\* C9 as stated: an emitted span is accepted if and only if it decodes as
\* UTF-8, has more than 1 character, has a letter, does not start with
\* NUL, and is not a 36-character string arranged as a UUID.
C9_UuidArrangedOnly ==
    [][(pc = "validate" /\ ValidLength(length, i, BufLen)) =>
         LET d == Utf8Decode(Slice(decompressed, i, length)) IN
           (text_parts' = Append(text_parts, d.text))
             <=> (/\ d.ok
                  /\ Len(d.text) > 1
                  /\ HasAlpha(d.text)
                  /\ d.text[1] # NUL
                  /\ ~IsUuidShape(d.text))]_vars

\* C9 amended: an emitted span is accepted if and only if it decodes as
\* UTF-8, has more than 1 character, has a letter, does not start with
\* NUL, and is not a run of 36 hexadecimal digits or dashes in any
\* arrangement, alone or followed by one newline; a span that is not
\* accepted leaves the parts as they are.
C9_FilterRule ==
    [][(pc = "validate" /\ ValidLength(length, i, BufLen)) =>
         LET d == Utf8Decode(Slice(decompressed, i, length)) IN
           /\ (text_parts' = Append(text_parts, d.text))
                <=> (/\ d.ok
                     /\ Len(d.text) > 1
                     /\ HasAlpha(d.text)
                     /\ d.text[1] # NUL
                     /\ ~IsHexDashRun(d.text))
           /\ \/ text_parts' = Append(text_parts, d.text)
              \/ text_parts' = text_parts]_vars

\* a span of 36 letters that are hexadecimal digits, not arranged as a
\* UUID, was scanned and not accepted
C9_Witness ==
    \E s \in 1..Len(spans) :
        /\ SpanText(spans[s]).ok
        /\ IsHexDashRun(SpanText(spans[s]).text)
        /\ ~IsUuidShape(SpanText(spans[s]).text)
        /\ HasAlpha(SpanText(spans[s]).text)
        /\ \A p \in 1..Len(text_parts) :
              text_parts[p] # SpanText(spans[s]).text

(***************************************************************************)
(* C10.                                                                    *)
(***************************************************************************)
\* C10: the guard i + 2 < len changes nothing: the spans emitted, with
\* their tags, are those of the scanner without the guard, and every
\* emitted span has its tag at an offset t with t + 2 < len.
C10_GuardRedundant ==
    (pc = "done" /\ ~Falsy(data)) =>
        /\ spans = UnguardedScan(decompressed, 0)
        /\ \A s \in 1..Len(spans) : spans[s].tag + 2 < BufLen

\* the scan emitted a field and then passed a tag byte that the guard
\* kept from being parsed
C10_Witness ==
    /\ pc = "done"
    /\ spans # <<>>
    /\ BufLen >= 3
    /\ WireType(decompressed[BufLen - 1]) = 2
    /\ spans[Len(spans)].start + spans[Len(spans)].len <= BufLen - 2

====
